---- MODULE Spec2Model ----
(***************************************************************************)
(* NetconfRUClient (src/callHome.py): a NETCONF client of an O-RAN radio   *)
(* unit.  The client holds one field of state, self.session; everything    *)
(* else lives on the element (the TX/RX array carriers, the notification   *)
(* subscription) or in the transport.  Each method of the class is one     *)
(* action.  The text of a reply is modelled by the list entries it holds,  *)
(* and a substring test "<tag>v</tag>" in xml_str by the search for an     *)
(* entry whose leaf tag has the value v.                                   *)
(***************************************************************************)
EXTENDS Naturals, Sequences, FiniteSets

\* ------------------------------------------------------------------ bounds

\* Number of distinct descriptors (field tuples) a caller may submit.
NumDesc == 2

\* Carrier names used by the callers, in both directions.
Names == {"A", "B"}

BOOL == {TRUE, FALSE}

\* Milliseconds by which the clock advances in one step.
ClockStep == 5000

\* supervision-notification-interval of the watchdog reset, in milliseconds.
notification_interval == 60000

\* guard-timer-overhead of the watchdog reset, in seconds.
guard_timer_overhead == 5

\* timeout of take_notification in receive_notifications, in seconds.
take_timeout == 10

\* ------------------------------------------------- XML list entries (leaves)

TxList == "tx-array-carriers"
RxList == "rx-array-carriers"

\* One list entry of a payload, a filter or a reply.  A numeric leaf that the
\* text does not hold is 0, a textual one "".
Entry(list, op, name, ccb, afc, cbw, type, gain, gc, nta, active) ==
    [list |-> list, op |-> op, name |-> name,
     center_of_channel_bandwidth |-> ccb,
     absolute_frequency_center |-> afc,
     channel_bandwidth |-> cbw,
     type |-> type,
     gain |-> gain,
     gain_correction |-> gc,
     n_ta_offset |-> nta,
     active |-> active]

\* The arguments of configure_tx_array_carrier / delete_tx_array_carrier:
\* (center_of_channel_bandwidth, absolute_frequency_center, channel_bandwidth, gain).
TxArgs == {<<k, NumDesc + k, 2 * NumDesc + k, 3 * NumDesc + k>> : k \in 1..NumDesc}

\* The arguments of configure_rx_array_carrier / delete_rx_array_carrier:
\* (center_of_channel_bandwidth, absolute_frequency_center, channel_bandwidth,
\*  gain_correction, n_ta_offset).
RxArgs == {<<k, NumDesc + k, 2 * NumDesc + k, 3 * NumDesc + k, 4 * NumDesc + k>> :
             k \in 1..NumDesc}

NoArgs == <<>>

\* ---------------------------------------------------------------- variables

VARIABLES
    session,      \* self.session: "None", or the Manager it references, whose
                  \* transport is "Connected", "Closed" (by close-session) or
                  \* "Lost" (dropped)
    leaked,       \* an open transport session is no longer referenced by the client
    subscribed,   \* the element holds a notification subscription of the session
    since,        \* milliseconds since the subscription was made or, if later,
                  \* since the last watchdog reset was requested on it
    tx,           \* the element's tx-array-carriers (set of entries)
    rx,           \* the element's rx-array-carriers (set of entries)
    inflight,     \* the requests handed to the session's transport and not yet
                  \* answered or failed, oldest first
    call,         \* the last call: [op, tx_name, rx_name, args]
    sent,         \* the requests the last call handed to the transport, in order
    replies,      \* what became of each of these requests, in the same order
    saved,        \* the labels the last call appended to the response file
    result,       \* what the last call gave its caller
    waited,       \* seconds the last call spent waiting for a notification
    pre           \* session, subscribed, tx and rx as they were when the last call began

vars ==
    <<session, leaked, subscribed, since, tx, rx, inflight, call, sent, replies, saved,
      result, waited, pre>>

\* ------------------------------------------------------- the element's side

NoLeaf(list, op, name, active) ==
    Entry(list, op, name, 0, 0, 0, "", 0, 0, 0, active)

Store(list) == IF list = TxList THEN tx ELSE rx

Present(list, name) == \E e \in Store(list) : e.name = name

\* A merge that would create an entry must carry the list's mandatory leaves.
Creates(e) ==
    /\ e.center_of_channel_bandwidth # 0
    /\ e.absolute_frequency_center # 0
    /\ e.channel_bandwidth # 0
    /\ e.type # ""

\* The element accepts an edit-config as a whole or rejects it as a whole:
\* a delete of an entry that is not there is rejected (data-missing), and so is
\* a merge that would create an entry without its mandatory leaves.
ValidEdit(body) ==
    \A e \in body :
        IF e.op = "delete" THEN Present(e.list, e.name)
        ELSE Present(e.list, e.name) \/ Creates(e)

\* The leaves of payload entry e merged into the stored entry old.
Merged(old, e) ==
    [old EXCEPT
       !.center_of_channel_bandwidth =
           IF e.center_of_channel_bandwidth # 0 THEN e.center_of_channel_bandwidth ELSE @,
       !.absolute_frequency_center =
           IF e.absolute_frequency_center # 0 THEN e.absolute_frequency_center ELSE @,
       !.channel_bandwidth = IF e.channel_bandwidth # 0 THEN e.channel_bandwidth ELSE @,
       !.type = IF e.type # "" THEN e.type ELSE @,
       !.gain = IF e.gain # 0 THEN e.gain ELSE @,
       !.gain_correction = IF e.gain_correction # 0 THEN e.gain_correction ELSE @,
       !.n_ta_offset = IF e.n_ta_offset # 0 THEN e.n_ta_offset ELSE @,
       !.active = IF e.active # "" THEN e.active ELSE @]

\* A created entry: the payload's leaves, active defaulting to INACTIVE.
Created(e) ==
    [e EXCEPT !.op = "", !.active = IF e.active # "" THEN e.active ELSE "INACTIVE"]

\* The list `list` of the element after an accepted edit-config of `body`.
ApplyEdit(list, body) ==
    LET mine == {e \in body : e.list = list}
        touched == {e.name : e \in mine}
        deleted == {e.name : e \in {d \in mine : d.op = "delete"}}
        kept == {o \in Store(list) : o.name \notin touched}
        merged == {Merged(o, CHOOSE e \in mine : e.name = o.name) :
                     o \in {o \in Store(list) : o.name \in touched \ deleted}}
        created == {Created(e) :
                     e \in {c \in mine : c.op # "delete" /\ ~Present(list, c.name)}}
    IN  kept \cup merged \cup created

\* The reply to a get whose filter selects a whole list.
ReplyList(list) == Store(list)

\* The reply to a get whose filter selects, in each list, the entry of a given
\* name and its leaf active: the name and that leaf of the entries that match.
ReplyStatus(tx_name, rx_name) ==
    {NoLeaf(TxList, "", e.name, e.active) : e \in {t \in tx : t.name = tx_name}}
    \cup {NoLeaf(RxList, "", e.name, e.active) : e \in {r \in rx : r.name = rx_name}}

\* What a supervision-status reply may hold ("" : no such leaf).
SupervisionReplies == {"unsupervised", "supervised", "other", ""}

\* ------------------------------------------------------------ the transport

Req(rpc, what, body) == [rpc |-> rpc, what |-> what, body |-> body]

\* What may become of a request on the session's transport: on a transport
\* that is closed it fails; on an open one it fails on the way or reaches the
\* element, which answers it when it is valid and rejects it otherwise.
Fates == IF session = "Connected" THEN BOOL ELSE {FALSE}

Accepted(ok, valid) == session = "Connected" /\ ok /\ valid

\* What became of a request: it was lost on the way (the call raises a
\* transport error), rejected by the element (the call raises RPCError on the
\* rpc-error reply) or answered; `text` is the answer's supervision-status.
Rep(fate, text) == [fate |-> fate, text |-> text]

Reply(ok, valid) ==
    Rep(IF ~(session = "Connected" /\ ok) THEN "lost"
        ELSE IF valid THEN "ok" ELSE "rpc-error", "")

\* Whether a write to the response file goes through (any failure of
\* save_to_file is swallowed); chosen only when something is saved.
Writes(saving) == IF saving THEN BOOL ELSE {FALSE}

\* ------------------------------------------------------ what a call returns

Ret(kind, xml, status, text) ==
    [kind |-> kind, xml |-> xml, status |-> status, text |-> text]

RetNone == Ret("None", {}, <<"", "">>, "")
RetResponse == Ret("response", {}, <<"", "">>, "")
RetXml(xml) == Ret("xml", xml, <<"", "">>, "")
RetStatus(t, r) == Ret("status", {}, <<t, r>>, "")
RetText(s) == Ret("text", {}, <<"", "">>, s)
Raised(exc) == Ret("raise", {}, <<"", "">>, exc)

\* A presence test that only finds the carriers that are active.
HasNameOfActive(xml, name) == \E e \in xml : e.name = name /\ e.active = "ACTIVE"

\* "<name>{name}</name>" in xml_str
HasName(xml, name) == \E e \in xml : e.name = name

\* A test that asks every entry of the text to be active.
HasActiveOnly(xml) == \A e \in xml : e.active = "ACTIVE"

\* "<active>ACTIVE</active>" in xml_str
HasActive(xml) == \E e \in xml : e.active = "ACTIVE"

\* The bookkeeping of a call that ran from its first statement to its return:
\* who was called, with what, and what came of it.  Its requests have all been
\* answered or have failed by then.
Called(op, tx_name, rx_name, args, reqs, reps, labels, ret) ==
    /\ UNCHANGED inflight
    /\ waited' = 0
    /\ call' = [op |-> op, tx_name |-> tx_name, rx_name |-> rx_name, args |-> args]
    /\ sent' = reqs
    /\ replies' = reps
    /\ saved' = labels
    /\ result' = ret
    /\ pre' = [session |-> session, subscribed |-> subscribed, tx |-> tx, rx |-> rx]

\* The caller is between two calls: the last call's outcome has been taken.
NoCall == [op |-> "", tx_name |-> "", rx_name |-> "", args |-> NoArgs]
NoPre == [session |-> "None", subscribed |-> FALSE, tx |-> {}, rx |-> {}]

Idle == call = NoCall

\* ------------------------------------------------------------------- Init

Init ==
    /\ session = "None"
    /\ leaked = FALSE
    /\ subscribed = FALSE
    /\ since = 0
    /\ tx = {}
    /\ rx = {}
    /\ inflight = <<>>
    /\ call = NoCall
    /\ sent = <<>>
    /\ replies = <<>>
    /\ saved = <<>>
    /\ result = RetNone
    /\ waited = 0
    /\ pre = NoPre

\* ---------------------------------------------------------------- methods

\* connect: one transport open; the session field is overwritten either way,
\* whatever it referenced.
connect ==
    /\ Idle
    /\ \E ok \in BOOL :
        /\ session' = IF ok THEN "Connected" ELSE "None"
        /\ leaked' = (leaked \/ session = "Connected")
        /\ subscribed' = FALSE
        /\ since' = 0
        /\ UNCHANGED <<tx, rx>>
        /\ Called("connect", "", "", NoArgs, <<Req("open", "", {})>>,
                  <<Rep(IF ok THEN "ok" ELSE "lost", "")>>, <<>>, RetNone)

\* save_to_file: the label is appended when the write goes through (w); any
\* failure is swallowed.
save_to_file(w, message) == IF w THEN <<message>> ELSE <<>>

\* What one call of a method comes to: the requests it made, what became of
\* them, the labels it saved and what it returned.
Outcome(reqs, reps, labels, ret) ==
    [reqs |-> reqs, reps |-> reps, labels |-> labels, ret |-> ret]

Nothing == Outcome(<<>>, <<>>, <<>>, RetNone)

\* A method that makes one request and changes nothing on the element:
\* `if not self.session: return` (or the AttributeError of None.get(...), caught),
\* then try: request; save_to_file; return ret / except: return None.
OneRequest(op, rpc, what, label, ret) ==
    /\ UNCHANGED <<session, leaked, subscribed, since, tx, rx>>
    /\ IF session = "None"
       THEN Called(op, "", "", NoArgs, <<>>, <<>>, <<>>, RetNone)
       ELSE \E ok \in Fates : \E w \in Writes(ok) :
            IF Accepted(ok, TRUE)
            THEN Called(op, "", "", NoArgs, <<Req(rpc, what, {})>>, <<Reply(ok, TRUE)>>,
                        save_to_file(w, label), ret)
            ELSE Called(op, "", "", NoArgs, <<Req(rpc, what, {})>>, <<Reply(ok, TRUE)>>,
                        <<>>, RetNone)

\* save_capabilities: reads the session's capabilities (no request) and writes
\* them to the capabilities file, outside any try.
save_capabilities ==
    /\ Idle
    /\ UNCHANGED <<session, leaked, subscribed, since, tx, rx>>
    /\ IF session = "None"
       THEN Called("save_capabilities", "", "", NoArgs, <<>>, <<>>, <<>>, RetNone)
       ELSE \E w \in BOOL :
            IF w
            THEN Called("save_capabilities", "", "", NoArgs, <<>>, <<>>,
                        <<"capabilities">>, RetNone)
            ELSE Called("save_capabilities", "", "", NoArgs, <<>>, <<>>, <<>>,
                        Raised("OSError"))

\* A reading that takes every reply other than unsupervised for supervised.
supervision_status_optimistic(text) ==
    IF text = "unsupervised" THEN "unsupervised" ELSE "supervised"

\* The status check_supervision_status reads out of a reply's text.
supervision_status(text) ==
    IF text = "unsupervised" THEN "unsupervised"
    ELSE IF text = "supervised" THEN "supervised"
    ELSE "unsupervised"

check_supervision_status ==
    /\ Idle
    /\ UNCHANGED <<session, leaked, subscribed, since, tx, rx>>
    /\ IF session = "None"
       THEN Called("check_supervision_status", "", "", NoArgs, <<>>, <<>>, <<>>, RetNone)
       ELSE \E ok \in Fates : \E w \in Writes(ok) :
            IF Accepted(ok, TRUE)
            THEN \E text \in SupervisionReplies :
                 Called("check_supervision_status", "", "", NoArgs,
                        <<Req("get", "supervision-status", {})>>, <<Rep("ok", text)>>,
                        save_to_file(w, "Supervision Status Retrieval"),
                        RetText(supervision_status(text)))
            ELSE Called("check_supervision_status", "", "", NoArgs,
                        <<Req("get", "supervision-status", {})>>, <<Reply(ok, TRUE)>>,
                        <<>>, RetNone)

\* subscribe_to_netconf_notifications: no session check; on None the
\* AttributeError is caught.  The element rejects a second subscription on a
\* session that has one.
subscribe_to_netconf_notifications ==
    /\ Idle
    /\ UNCHANGED <<session, leaked, tx, rx>>
    /\ IF session = "None"
       THEN /\ UNCHANGED <<subscribed, since>>
            /\ Called("subscribe_to_netconf_notifications", "", "", NoArgs,
                      <<>>, <<>>, <<>>, RetNone)
       ELSE \E ok \in Fates : \E w \in Writes(ok /\ ~subscribed) :
            IF Accepted(ok, ~subscribed)
            THEN /\ subscribed' = TRUE
                 /\ since' = 0
                 /\ Called("subscribe_to_netconf_notifications", "", "", NoArgs,
                           <<Req("dispatch", "create-subscription", {})>>,
                           <<Reply(ok, ~subscribed)>>,
                           save_to_file(w, "Supervision Mode entered"), RetResponse)
            ELSE /\ UNCHANGED <<subscribed, since>>
                 /\ Called("subscribe_to_netconf_notifications", "", "", NoArgs,
                           <<Req("dispatch", "create-subscription", {})>>,
                           <<Reply(ok, ~subscribed)>>, <<>>, RetNone)

\* reset_supervision_watchdog: one dispatch of supervision-watchdog-reset.
reset_supervision_watchdog ==
    /\ Idle
    /\ UNCHANGED <<session, leaked, subscribed, tx, rx>>
    /\ IF session = "None"
       THEN /\ UNCHANGED since
            /\ Called("reset_supervision_watchdog", "", "", NoArgs, <<>>, <<>>, <<>>, RetNone)
       ELSE \E ok \in Fates : \E w \in Writes(ok) :
            /\ since' = IF session = "Connected" THEN 0 ELSE since
            /\ Called("reset_supervision_watchdog", "", "", NoArgs,
                      <<Req("dispatch", "supervision-watchdog-reset", {})>>,
                      <<Reply(ok, TRUE)>>,
                      IF Accepted(ok, TRUE)
                      THEN save_to_file(w, "Supervision Watchdog Reset") ELSE <<>>,
                      IF Accepted(ok, TRUE) THEN RetResponse ELSE RetNone)

get_available_streams ==
    /\ Idle
    /\ OneRequest("get_available_streams", "get", "streams",
               "Available Notification Streams", RetNone)

\* A wait that goes on after the timeout when nothing has arrived.
take_notification_unbounded(arrived) ==
    IF arrived THEN 0..take_timeout ELSE {take_timeout + 1}

\* self.session.take_notification(timeout=10): the seconds the call may wait
\* on the session's notification queue, up to the arrival of a notification or
\* else to the timeout.
take_notification(arrived) ==
    IF arrived THEN 0..take_timeout ELSE {take_timeout}

\* receive_notifications: take_notification(timeout=10) reads the session's
\* notification queue (no request) and gives one notification or, at the
\* timeout, None; the for loop over either raises TypeError, which the except
\* clause catches.  The transport may drop during the wait: nothing arrives
\* then and the wait ends at the timeout like any other.
receive_notifications ==
    /\ Idle
    /\ UNCHANGED <<leaked, tx, rx, inflight>>
    /\ call' = [op |-> "receive_notifications", tx_name |-> "", rx_name |-> "",
                args |-> NoArgs]
    /\ sent' = <<>>
    /\ replies' = <<>>
    /\ saved' = <<>>
    /\ result' = RetNone
    /\ pre' = [session |-> session, subscribed |-> subscribed, tx |-> tx, rx |-> rx]
    /\ IF session = "None"
       THEN /\ waited' = 0
            /\ UNCHANGED <<session, subscribed, since>>
       ELSE \E drop \in IF session = "Connected" THEN BOOL ELSE {FALSE} :
            \E arrived \in IF session = "Connected" /\ subscribed /\ ~drop
                            THEN BOOL ELSE {FALSE} :
            \E t \in take_notification(arrived) :
                /\ waited' = t
                /\ session' = IF drop THEN "Lost" ELSE session
                /\ subscribed' = IF drop THEN FALSE ELSE subscribed
                /\ since' = IF drop THEN 0 ELSE since

configure_call_home ==
    /\ Idle
    /\ OneRequest("configure_call_home", "edit-config", "mplane-info",
               "Call Home Configuration Response", RetResponse)

get_running_config ==
    /\ Idle
    /\ OneRequest("get_running_config", "get-config", "running",
               "Running Configuration", RetXml(tx \cup rx))

retrieve_ru_states ==
    /\ Idle
    /\ OneRequest("retrieve_ru_states", "get", "hardware", "RU States Response", RetXml({}))

get_all_state_data ==
    /\ Idle
    /\ OneRequest("get_all_state_data", "get", "", "All RU states", RetNone)

\* close_connection: close_session() is called whenever the field is not None,
\* outside any try, and the field is left as it is.
close_connection ==
    /\ Idle
    /\ UNCHANGED <<leaked, tx, rx>>
    /\ IF session = "None"
       THEN /\ UNCHANGED <<session, subscribed, since>>
            /\ Called("close_connection", "", "", NoArgs, <<>>, <<>>, <<>>, RetNone)
       ELSE \E ok \in Fates :
            IF Accepted(ok, TRUE)
            THEN /\ session' = "Closed"
                 /\ subscribed' = FALSE
                 /\ since' = 0
                 /\ Called("close_connection", "", "", NoArgs,
                           <<Req("close-session", "", {})>>, <<Reply(ok, TRUE)>>,
                           <<>>, RetNone)
            ELSE /\ UNCHANGED <<session, subscribed, since>>
                 /\ Called("close_connection", "", "", NoArgs,
                           <<Req("close-session", "", {})>>, <<Reply(ok, TRUE)>>,
                           <<>>, Raised("TransportError"))

\* ------------------------------------------------------- carrier methods

TxFilter == {NoLeaf(TxList, "", "", "")}
RxFilter == {NoLeaf(RxList, "", "", "")}

\* A read that answers from a cache nobody has filled.
tx_info_cached(ok, w) ==
    IF session = "None" THEN Nothing ELSE Outcome(<<>>, <<>>, <<>>, RetXml({}))

\* retrieve_tx_array_carrier_info as it runs: one get, the reply's text returned.
tx_info(ok, w) ==
    IF session = "None" THEN Nothing
    ELSE IF Accepted(ok, TRUE)
    THEN Outcome(<<Req("get", TxList, TxFilter)>>, <<Reply(ok, TRUE)>>,
                 save_to_file(w, "TX Array Carrier Information"),
                 RetXml(ReplyList(TxList)))
    ELSE Outcome(<<Req("get", TxList, TxFilter)>>, <<Reply(ok, TRUE)>>, <<>>, RetNone)

\* retrieve_rx_array_carrier_info as it runs.
rx_info(ok, w) ==
    IF session = "None" THEN Nothing
    ELSE IF Accepted(ok, TRUE)
    THEN Outcome(<<Req("get", RxList, RxFilter)>>, <<Reply(ok, TRUE)>>,
                 save_to_file(w, "RX Array Carrier Information"),
                 RetXml(ReplyList(RxList)))
    ELSE Outcome(<<Req("get", RxList, RxFilter)>>, <<Reply(ok, TRUE)>>, <<>>, RetNone)

retrieve_tx_array_carrier_info ==
    /\ Idle
    /\ \E ok \in Fates : \E w \in Writes(ok) :
        LET o == tx_info(ok, w) IN
        /\ UNCHANGED <<session, leaked, subscribed, since, tx, rx>>
        /\ Called("retrieve_tx_array_carrier_info", "", "", NoArgs, o.reqs, o.reps,
                  o.labels, o.ret)

retrieve_rx_array_carrier_info ==
    /\ Idle
    /\ \E ok \in Fates : \E w \in Writes(ok) :
        LET o == rx_info(ok, w) IN
        /\ UNCHANGED <<session, leaked, subscribed, since, tx, rx>>
        /\ Called("retrieve_rx_array_carrier_info", "", "", NoArgs, o.reqs, o.reps,
                  o.labels, o.ret)

\* A payload with two leaves interchanged.
TxConfigSwapped(name, a) ==
    {Entry(TxList, "merge", name, a[2], a[1], a[3], "NR", a[4], 0, 0, "")}

\* The config payload of configure_tx_array_carrier.
TxConfig(name, a) ==
    {Entry(TxList, "merge", name, a[1], a[2], a[3], "NR", a[4], 0, 0, "")}

\* The config payload of configure_rx_array_carrier.
RxConfig(name, a) ==
    {Entry(RxList, "merge", name, a[1], a[2], a[3], "NR", 0, a[4], a[5], "")}

\* The config payload of delete_tx_array_carrier.
TxDelete(name, a) ==
    {Entry(TxList, "delete", name, a[1], a[2], a[3], "NR", a[4], 0, 0, "")}

\* The config payload of delete_rx_array_carrier.
RxDelete(name, a) ==
    {Entry(RxList, "delete", name, a[1], a[2], a[3], "NR", 0, a[4], a[5], "INACTIVE")}

\* An edit whose failed log write ends in the except clause.
EditConfigLogRaises(op, tx_name, rx_name, args, before, payload, label) ==
    \E ok \in Fates : \E w \in Writes(ok /\ ValidEdit(payload)) :
        IF Accepted(ok, ValidEdit(payload))
        THEN /\ tx' = ApplyEdit(TxList, payload)
             /\ rx' = ApplyEdit(RxList, payload)
             /\ Called(op, tx_name, rx_name, args,
                       Append(before.reqs, Req("edit-config", "running", payload)),
                       Append(before.reps, Reply(ok, ValidEdit(payload))),
                       before.labels, IF w THEN RetResponse ELSE RetNone)
        ELSE /\ UNCHANGED <<tx, rx>>
             /\ Called(op, tx_name, rx_name, args,
                       Append(before.reqs, Req("edit-config", "running", payload)),
                       Append(before.reps, Reply(ok, ValidEdit(payload))),
                       before.labels, RetNone)

\* try: edit_config(target='running', config=payload); save_to_file; return
\* response / except: return None -- after the requests and labels of `before`.
EditConfig(op, tx_name, rx_name, args, before, payload, label) ==
    \E ok \in Fates : \E w \in Writes(ok /\ ValidEdit(payload)) :
        IF Accepted(ok, ValidEdit(payload))
        THEN /\ tx' = ApplyEdit(TxList, payload)
             /\ rx' = ApplyEdit(RxList, payload)
             /\ Called(op, tx_name, rx_name, args,
                       Append(before.reqs, Req("edit-config", "running", payload)),
                       Append(before.reps, Reply(ok, ValidEdit(payload))),
                       before.labels \o save_to_file(w, label), RetResponse)
        ELSE /\ UNCHANGED <<tx, rx>>
             /\ Called(op, tx_name, rx_name, args,
                       Append(before.reqs, Req("edit-config", "running", payload)),
                       Append(before.reps, Reply(ok, ValidEdit(payload))),
                       before.labels, RetNone)

\* A method that returns (or raises) before any edit-config of its own.
Returns(op, tx_name, rx_name, args, before, ret) ==
    /\ UNCHANGED <<tx, rx>>
    /\ Called(op, tx_name, rx_name, args, before.reqs, before.reps, before.labels, ret)

\* configure_tx_array_carrier: the presence read, the substring test on its
\* result (a TypeError when the read gave None), then the create.
configure_tx_array_carrier ==
    /\ Idle
    /\ \E name \in Names, a \in TxArgs :
        /\ UNCHANGED <<session, leaked, subscribed, since>>
        /\ IF session = "None"
           THEN Returns("configure_tx_array_carrier", name, "", a, Nothing, RetNone)
           ELSE \E okRead \in Fates : \E w1 \in Writes(okRead) :
                LET info == tx_info(okRead, w1) IN
                IF info.ret.kind = "None"
                THEN Returns("configure_tx_array_carrier", name, "", a, info,
                             Raised("TypeError"))
                ELSE IF HasName(info.ret.xml, name)
                THEN Returns("configure_tx_array_carrier", name, "", a, info, RetNone)
                ELSE EditConfig("configure_tx_array_carrier", name, "", a, info,
                                TxConfig(name, a), "TX Array Carrier Configuration")

configure_rx_array_carrier ==
    /\ Idle
    /\ \E name \in Names, a \in RxArgs :
        /\ UNCHANGED <<session, leaked, subscribed, since>>
        /\ IF session = "None"
           THEN Returns("configure_rx_array_carrier", "", name, a, Nothing, RetNone)
           ELSE \E okRead \in Fates : \E w1 \in Writes(okRead) :
                LET info == rx_info(okRead, w1) IN
                IF info.ret.kind = "None"
                THEN Returns("configure_rx_array_carrier", "", name, a, info,
                             Raised("TypeError"))
                ELSE IF HasName(info.ret.xml, name)
                THEN Returns("configure_rx_array_carrier", "", name, a, info, RetNone)
                ELSE EditConfig("configure_rx_array_carrier", "", name, a, info,
                                RxConfig(name, a), "RX Array Carrier Configuration")

\* delete_tx_array_carrier: no presence read; the delete is sent as it is.
delete_tx_array_carrier ==
    /\ Idle
    /\ \E name \in Names, a \in TxArgs :
        /\ UNCHANGED <<session, leaked, subscribed, since>>
        /\ IF session = "None"
           THEN Returns("delete_tx_array_carrier", name, "", a, Nothing, RetNone)
           ELSE EditConfig("delete_tx_array_carrier", name, "", a, Nothing,
                           TxDelete(name, a), "TX Array Carrier Deletion")

delete_rx_array_carrier ==
    /\ Idle
    /\ \E name \in Names, a \in RxArgs :
        /\ UNCHANGED <<session, leaked, subscribed, since>>
        /\ IF session = "None"
           THEN Returns("delete_rx_array_carrier", "", name, a, Nothing, RetNone)
           ELSE EditConfig("delete_rx_array_carrier", "", name, a, Nothing,
                           RxDelete(name, a), "RX Array Carrier Deletion")

StatusFilter(tx_name, rx_name) ==
    {NoLeaf(TxList, "", tx_name, ""), NoLeaf(RxList, "", rx_name, "")}

\* The pair retrieve_carrier_status reads out of the reply's text: each side is
\* ACTIVE when its name occurs in the text and "<active>ACTIVE</active>" does.
ParseStatus(xml, tx_name, rx_name) ==
    <<IF HasName(xml, tx_name) /\ HasActive(xml) THEN "ACTIVE" ELSE "INACTIVE",
      IF HasName(xml, rx_name) /\ HasActive(xml) THEN "ACTIVE" ELSE "INACTIVE">>

\* A status read that makes its get a second time when the first has failed.
carrier_status_retried(tx_name, rx_name, ok, w) ==
    IF session = "None" THEN Outcome(<<>>, <<>>, <<>>, RetStatus("None", "None"))
    ELSE IF Accepted(ok, TRUE)
    THEN LET st == ParseStatus(ReplyStatus(tx_name, rx_name), tx_name, rx_name) IN
         Outcome(<<Req("get", "active", StatusFilter(tx_name, rx_name))>>,
                 <<Reply(ok, TRUE)>>,
                 save_to_file(w, "Carrier Status Retrieval"),
                 RetStatus(st[1], st[2]))
    ELSE Outcome(<<Req("get", "active", StatusFilter(tx_name, rx_name)),
                   Req("get", "active", StatusFilter(tx_name, rx_name))>>,
                 <<Reply(ok, TRUE), Reply(ok, TRUE)>>, <<>>, RetStatus("None", "None"))

\* retrieve_carrier_status as it runs: one get for both carriers.
carrier_status(tx_name, rx_name, ok, w) ==
    IF session = "None" THEN Outcome(<<>>, <<>>, <<>>, RetStatus("None", "None"))
    ELSE IF Accepted(ok, TRUE)
    THEN LET st == ParseStatus(ReplyStatus(tx_name, rx_name), tx_name, rx_name) IN
         Outcome(<<Req("get", "active", StatusFilter(tx_name, rx_name))>>,
                 <<Reply(ok, TRUE)>>,
                 save_to_file(w, "Carrier Status Retrieval"),
                 RetStatus(st[1], st[2]))
    ELSE Outcome(<<Req("get", "active", StatusFilter(tx_name, rx_name))>>,
                 <<Reply(ok, TRUE)>>, <<>>, RetStatus("None", "None"))

retrieve_carrier_status ==
    /\ Idle
    /\ \E tx_name \in Names, rx_name \in Names :
        \E ok \in Fates : \E w \in Writes(ok) :
            LET o == carrier_status(tx_name, rx_name, ok, w) IN
            /\ UNCHANGED <<session, leaked, subscribed, since, tx, rx>>
            /\ Called("retrieve_carrier_status", tx_name, rx_name, NoArgs,
                      o.reqs, o.reps, o.labels, o.ret)

\* A payload that names the TX carrier alone.
ActivationPayloadTxOnly(tx_name, rx_name, target) ==
    {NoLeaf(TxList, "merge", tx_name, target)}

\* The config payload of activate_carriers / deactivate_carriers: both
\* carriers, each with the target state.
ActivationPayload(tx_name, rx_name, target) ==
    {NoLeaf(TxList, "merge", tx_name, target), NoLeaf(RxList, "merge", rx_name, target)}

activate_carriers ==
    /\ Idle
    /\ \E tx_name \in Names, rx_name \in Names :
        /\ UNCHANGED <<session, leaked, subscribed, since>>
        /\ IF session = "None"
           THEN Returns("activate_carriers", tx_name, rx_name, NoArgs, Nothing, RetNone)
           ELSE \E okRead \in Fates : \E w1 \in Writes(okRead) :
                LET st == carrier_status(tx_name, rx_name, okRead, w1) IN
                IF st.ret.status = <<"ACTIVE", "ACTIVE">>
                THEN Returns("activate_carriers", tx_name, rx_name, NoArgs, st, RetNone)
                ELSE EditConfig("activate_carriers", tx_name, rx_name, NoArgs, st,
                                ActivationPayload(tx_name, rx_name, "ACTIVE"),
                                "Carriers Activation")

deactivate_carriers ==
    /\ Idle
    /\ \E tx_name \in Names, rx_name \in Names :
        /\ UNCHANGED <<session, leaked, subscribed, since>>
        /\ IF session = "None"
           THEN Returns("deactivate_carriers", tx_name, rx_name, NoArgs, Nothing, RetNone)
           ELSE \E okRead \in Fates : \E w1 \in Writes(okRead) :
                LET st == carrier_status(tx_name, rx_name, okRead, w1) IN
                IF st.ret.status = <<"INACTIVE", "INACTIVE">>
                THEN Returns("deactivate_carriers", tx_name, rx_name, NoArgs, st, RetNone)
                ELSE EditConfig("deactivate_carriers", tx_name, rx_name, NoArgs, st,
                                ActivationPayload(tx_name, rx_name, "INACTIVE"),
                                "Carriers Deactivation")

\* ------------------------------------------------- the element's other users

\* The payloads another management session may submit: those of this client.
ExternalPayloads ==
    UNION {{TxConfig(n, a) : a \in TxArgs} \cup {RxConfig(n, a) : a \in RxArgs}
           \cup {TxDelete(n, a) : a \in TxArgs} \cup {RxDelete(n, a) : a \in RxArgs}
           \cup {ActivationPayload(n, m, t) : m \in Names, t \in {"ACTIVE", "INACTIVE"}}
           : n \in Names}

\* Another management session changes the element's carriers between two
\* calls of this client.
ExternalEdit ==
    /\ Idle
    /\ \E payload \in ExternalPayloads :
        /\ ValidEdit(payload)
        /\ tx' = ApplyEdit(TxList, payload)
        /\ rx' = ApplyEdit(RxList, payload)
        /\ tx' # tx \/ rx' # rx
    /\ UNCHANGED <<session, leaked, subscribed, since, inflight, call, sent, replies, saved,
                   result, waited, pre>>

\* The payloads a second client submits when it configures a TX carrier.
ConcurrentPayloads == {TxConfig(n, a) : n \in Names, a \in TxArgs}

\* A second client configures a TX carrier that the element does not hold,
\* between two requests of one call of this client: after the answer to the
\* first has arrived and before the second reaches the element.
ConcurrentEdit ==
    /\ ~Idle
    /\ replies # <<>>
    /\ inflight # <<>>
    /\ \E payload \in ConcurrentPayloads :
        /\ \A e \in payload : ~Present(e.list, e.name)
        /\ ValidEdit(payload)
        /\ tx' = ApplyEdit(TxList, payload)
        /\ rx' = ApplyEdit(RxList, payload)
        /\ tx' # tx \/ rx' # rx
    /\ UNCHANGED <<session, leaked, subscribed, since, inflight, call, sent, replies, saved,
                   result, waited, pre>>

\* ------------------------------------------- the methods, request by request

\* The calls followed request by request: the watchdog reset and the TX
\* carrier methods.
StepCalls ==
    {[op |-> o, tx_name |-> "", rx_name |-> "", args |-> NoArgs] :
        o \in {"reset_supervision_watchdog", "retrieve_tx_array_carrier_info"}}
    \cup {[op |-> o, tx_name |-> n, rx_name |-> "", args |-> a] :
        o \in {"configure_tx_array_carrier", "delete_tx_array_carrier"},
        n \in Names, a \in TxArgs}
    \cup {[op |-> o, tx_name |-> n, rx_name |-> m, args |-> NoArgs] :
        o \in {"activate_carriers", "deactivate_carriers"}, n \in Names, m \in Names}

\* The request a method makes first.
FirstRequest(c) ==
    IF c.op = "reset_supervision_watchdog"
    THEN Req("dispatch", "supervision-watchdog-reset", {})
    ELSE IF c.op \in {"retrieve_tx_array_carrier_info", "configure_tx_array_carrier"}
    THEN Req("get", TxList, TxFilter)
    ELSE IF c.op = "delete_tx_array_carrier"
    THEN Req("edit-config", "running", TxDelete(c.tx_name, c.args))
    ELSE Req("get", "active", StatusFilter(c.tx_name, c.rx_name))

\* The label under which a method saves the answer to a request.
LabelOf(c, req) ==
    IF req.rpc = "dispatch" THEN "Supervision Watchdog Reset"
    ELSE IF req.rpc = "get"
    THEN IF req.what = TxList THEN "TX Array Carrier Information"
         ELSE "Carrier Status Retrieval"
    ELSE IF c.op = "configure_tx_array_carrier" THEN "TX Array Carrier Configuration"
    ELSE IF c.op = "delete_tx_array_carrier" THEN "TX Array Carrier Deletion"
    ELSE IF c.op = "activate_carriers" THEN "Carriers Activation"
    ELSE "Carriers Deactivation"

\* How a method goes on once its request req was answered (good) or not: the
\* request it makes next, if any, and otherwise what it returns.
GoesOn(next, ret) == [next |-> next, ret |-> ret]

Continue(c, req, good) ==
    IF req.rpc # "get"
    THEN GoesOn(<<>>, IF good THEN RetResponse ELSE RetNone)
    ELSE IF c.op = "retrieve_tx_array_carrier_info"
    THEN GoesOn(<<>>, IF good THEN RetXml(ReplyList(TxList)) ELSE RetNone)
    ELSE IF c.op = "configure_tx_array_carrier"
    THEN IF ~good THEN GoesOn(<<>>, Raised("TypeError"))
         ELSE IF HasName(ReplyList(TxList), c.tx_name) THEN GoesOn(<<>>, RetNone)
         ELSE GoesOn(<<Req("edit-config", "running", TxConfig(c.tx_name, c.args))>>, RetNone)
    ELSE LET target == IF c.op = "activate_carriers" THEN "ACTIVE" ELSE "INACTIVE"
             st == IF good
                   THEN ParseStatus(ReplyStatus(c.tx_name, c.rx_name), c.tx_name, c.rx_name)
                   ELSE <<"None", "None">>
         IN  IF st = <<target, target>> THEN GoesOn(<<>>, RetNone)
             ELSE GoesOn(<<Req("edit-config", "running",
                               ActivationPayload(c.tx_name, c.rx_name, target))>>, RetNone)

\* The driver calls a method, which runs up to its first request: without a
\* session it returns at once, otherwise the request is handed to the transport.
CallMethod ==
    /\ Idle
    /\ \E c \in StepCalls :
        /\ call' = c
        /\ pre' = [session |-> session, subscribed |-> subscribed, tx |-> tx, rx |-> rx]
        /\ replies' = <<>>
        /\ saved' = <<>>
        /\ result' = RetNone
        /\ waited' = 0
        /\ IF session = "None"
           THEN /\ sent' = <<>>
                /\ UNCHANGED <<inflight, since>>
           ELSE /\ sent' = <<FirstRequest(c)>>
                /\ inflight' = Append(inflight, FirstRequest(c))
                /\ since' = IF c.op = "reset_supervision_watchdog" /\ session = "Connected"
                            THEN 0 ELSE since
    /\ UNCHANGED <<session, leaked, subscribed, tx, rx>>

\* The oldest outstanding request is answered, refused or lost, and the method
\* that made it goes on: it saves the answer and returns, or makes its next
\* request.
ReplyArrives ==
    /\ ~Idle
    /\ inflight # <<>>
    /\ LET req == Head(inflight) IN
       \E ok \in Fates : \E w \in Writes(ok) :
          LET valid == IF req.rpc = "edit-config" THEN ValidEdit(req.body) ELSE TRUE
              good == Accepted(ok, valid)
              on == Continue(call, req, good)
          IN  /\ replies' = Append(replies, Reply(ok, valid))
              /\ IF good /\ req.rpc = "edit-config"
                 THEN /\ tx' = ApplyEdit(TxList, req.body)
                      /\ rx' = ApplyEdit(RxList, req.body)
                 ELSE UNCHANGED <<tx, rx>>
              /\ saved' = IF good THEN saved \o save_to_file(w, LabelOf(call, req))
                          ELSE saved
              /\ sent' = sent \o on.next
              /\ inflight' = Tail(inflight) \o on.next
              /\ result' = on.ret
    /\ UNCHANGED <<session, leaked, subscribed, since, call, waited, pre>>

\* ------------------------------------------------------------- the clock

\* The time that may pass between two watchdog resets before the element
\* counts the deadline as missed, in milliseconds.
ResetPeriod == notification_interval - guard_timer_overhead * 1000

\* Time passes between two calls while the session is supervised; nothing in
\* the client runs meanwhile.  The clock stops at the notification interval.
Tick ==
    /\ Idle
    /\ session = "Connected"
    /\ subscribed
    /\ since < notification_interval
    /\ since' = since + ClockStep
    /\ UNCHANGED <<session, leaked, subscribed, tx, rx, inflight, call, sent, replies, saved,
                   result, waited, pre>>

\* ----------------------------------------------------------- specification

\* A method that gives control back with its request still outstanding.
AwaitsNothing == TRUE

\* response = self.session.<rpc>(...): the call on the session gives control
\* back only when its request has been answered or has failed.
AwaitsReply == inflight = <<>>

\* The caller takes the outcome of the call and is free to make the next one.
Return ==
    /\ ~Idle
    /\ AwaitsReply
    /\ call' = NoCall
    /\ sent' = <<>>
    /\ replies' = <<>>
    /\ saved' = <<>>
    /\ result' = RetNone
    /\ waited' = 0
    /\ pre' = NoPre
    /\ UNCHANGED <<session, leaked, subscribed, since, tx, rx, inflight>>

\* Any method may be called once the previous call has returned.
Next ==
    \/ connect
    \/ save_capabilities
    \/ check_supervision_status
    \/ subscribe_to_netconf_notifications
    \/ reset_supervision_watchdog
    \/ get_available_streams
    \/ receive_notifications
    \/ configure_call_home
    \/ retrieve_tx_array_carrier_info
    \/ retrieve_rx_array_carrier_info
    \/ configure_tx_array_carrier
    \/ configure_rx_array_carrier
    \/ delete_tx_array_carrier
    \/ delete_rx_array_carrier
    \/ get_running_config
    \/ retrieve_carrier_status
    \/ activate_carriers
    \/ deactivate_carriers
    \/ retrieve_ru_states
    \/ get_all_state_data
    \/ close_connection
    \/ ExternalEdit
    \/ Return

Spec == Init /\ [][Next]_vars

\* The supervision methods under a clock: the calls of the driver's
\* supervision steps, with time passing between them.
SupervisionNext ==
    \/ connect
    \/ check_supervision_status
    \/ subscribe_to_netconf_notifications
    \/ reset_supervision_watchdog
    \/ receive_notifications
    \/ close_connection
    \/ Tick
    \/ Return

Supervision == Init /\ [][SupervisionNext]_vars

\* The session's transport channel, request by request: the driver connects,
\* calls the watchdog reset, the notification wait and the TX carrier methods
\* one after the other, and closes, while other sessions edit the element
\* between its calls and between its requests.
ChannelNext ==
    \/ connect
    \/ CallMethod
    \/ ReplyArrives
    \/ receive_notifications
    \/ close_connection
    \/ ExternalEdit
    \/ ConcurrentEdit
    \/ Return

Channel == Init /\ [][ChannelNext]_vars

\* ------------------------------------------------------------------ claims

IsEdit(r) == r.rpc = "edit-config"
Edits == SelectSeq(sent, IsEdit)

IsSessionRequest(r) == r.rpc # "open"
SessionRequests == SelectSeq(sent, IsSessionRequest)

\* The activation state of the carrier `name` in a list, "absent" when the
\* list has no such carrier.
StateOf(store, name) ==
    IF \E e \in store : e.name = name
    THEN (CHOOSE e \in store : e.name = name).active
    ELSE "absent"

ConfiguredTx == call.op = "configure_tx_array_carrier"
ConfiguredRx == call.op = "configure_rx_array_carrier"

\* C1: a configure call for a carrier name that is present on the element is
\* a no-op in either direction: it sends no edit-config and leaves both carrier
\* lists as they were; and a configure call that created an absent name sent
\* exactly one edit-config and left the name present, so that the same call
\* made again is such a no-op and the two calls sent one create in total.
C1_ConfigurePresentIsNoop ==
    /\ ConfiguredTx /\ StateOf(pre.tx, call.tx_name) # "absent"
         => Edits = <<>> /\ tx = pre.tx /\ rx = pre.rx
    /\ ConfiguredRx /\ StateOf(pre.rx, call.rx_name) # "absent"
         => Edits = <<>> /\ tx = pre.tx /\ rx = pre.rx
    /\ ConfiguredTx /\ StateOf(pre.tx, call.tx_name) = "absent" /\ result.kind = "response"
         => Len(Edits) = 1 /\ StateOf(tx, call.tx_name) # "absent"
    /\ ConfiguredRx /\ StateOf(pre.rx, call.rx_name) = "absent" /\ result.kind = "response"
         => Len(Edits) = 1 /\ StateOf(rx, call.rx_name) # "absent"

\* A configure call for a present TX name, with fields other than the stored
\* ones, has returned after its presence read.
C1_Witness ==
    /\ ConfiguredTx
    /\ \E e \in pre.tx : e.name = call.tx_name /\ e.channel_bandwidth # call.args[3]
    /\ Len(sent) = 1
    /\ result = RetNone

\* The entries named `name` in what a read of a carrier list returns now.
Named(o, name) == {e \in o.ret.xml : e.name = name}

\* C2: after a connected configure call for an absent name whose requests
\* succeeded, the carrier read of the same direction, made next and
\* succeeding, returns exactly one entry of that name, and that entry carries
\* the submitted fields.
C2_ConfigureThenGetCarriers ==
    /\ ConfiguredTx /\ StateOf(pre.tx, call.tx_name) = "absent" /\ result.kind = "response"
         => /\ tx_info(TRUE, TRUE).ret.kind = "xml"
            /\ Cardinality(Named(tx_info(TRUE, TRUE), call.tx_name)) = 1
            /\ \A e \in Named(tx_info(TRUE, TRUE), call.tx_name) :
                 /\ e.center_of_channel_bandwidth = call.args[1]
                 /\ e.absolute_frequency_center = call.args[2]
                 /\ e.channel_bandwidth = call.args[3]
                 /\ e.gain = call.args[4]
                 /\ e.type = "NR"
    /\ ConfiguredRx /\ StateOf(pre.rx, call.rx_name) = "absent" /\ result.kind = "response"
         => /\ rx_info(TRUE, TRUE).ret.kind = "xml"
            /\ Cardinality(Named(rx_info(TRUE, TRUE), call.rx_name)) = 1
            /\ \A e \in Named(rx_info(TRUE, TRUE), call.rx_name) :
                 /\ e.center_of_channel_bandwidth = call.args[1]
                 /\ e.absolute_frequency_center = call.args[2]
                 /\ e.channel_bandwidth = call.args[3]
                 /\ e.gain_correction = call.args[4]
                 /\ e.n_ta_offset = call.args[5]
                 /\ e.type = "NR"

\* A configure call has created a TX carrier beside another one.
C2_Witness ==
    /\ ConfiguredTx
    /\ StateOf(pre.tx, call.tx_name) = "absent"
    /\ result.kind = "response"
    /\ Cardinality(tx) = 2

Activated == call.op = "activate_carriers"
Deactivated == call.op = "deactivate_carriers"
Target == IF Activated THEN "ACTIVE" ELSE "INACTIVE"

\* The payload names the TX carrier and the RX carrier of the call, each with
\* the target state, and nothing else.
NamesBoth(body) ==
    /\ \E e \in body : e.list = TxList /\ e.name = call.tx_name /\ e.active = Target
    /\ \E e \in body : e.list = RxList /\ e.name = call.rx_name /\ e.active = Target
    /\ \A e \in body : e.active = Target /\ e.name = IF e.list = TxList THEN call.tx_name
                                                     ELSE call.rx_name
    /\ Cardinality(body) = 2

\* C3: an activate_carriers or deactivate_carriers call sends at most one
\* edit-config, every edit-config it sends names both the TX and the RX carrier
\* with the same target state, and a call that changed a carrier sent exactly
\* one.
C3_OneCombinedPayload ==
    Activated \/ Deactivated
      => /\ Len(Edits) <= 1
         /\ \A i \in 1..Len(Edits) : NamesBoth(Edits[i].body)
         /\ (tx # pre.tx \/ rx # pre.rx) => Len(Edits) = 1

\* An activation has changed both carriers.
C3_Witness ==
    /\ Activated
    /\ tx # pre.tx
    /\ rx # pre.rx
    /\ Len(Edits) = 1

\* The two carriers of the call, as the element held them when it began.
PreTx == StateOf(pre.tx, call.tx_name)
PreRx == StateOf(pre.rx, call.rx_name)

OneSideActive ==
    \/ PreTx = "ACTIVE" /\ PreRx = "INACTIVE"
    \/ PreTx = "INACTIVE" /\ PreRx = "ACTIVE"

\* C4: an activate_carriers call on a connected client, made when exactly one
\* of its two carriers is ACTIVE on the element and the other INACTIVE, sends
\* one edit-config naming both with target ACTIVE, and when that request
\* succeeded both carriers are ACTIVE.
C4_ActivateOneSided ==
    Activated /\ pre.session = "Connected" /\ OneSideActive
      => /\ Len(Edits) = 1
         /\ NamesBoth(Edits[1].body)
         /\ result.kind = "response"
              => StateOf(tx, call.tx_name) = "ACTIVE" /\ StateOf(rx, call.rx_name) = "ACTIVE"

\* C5: a deactivate_carriers call made with a session, when its TX carrier is
\* ACTIVE and its RX carrier INACTIVE on the element, sends exactly one
\* edit-config, which names both carriers with target INACTIVE, and when that
\* request succeeded both carriers are INACTIVE.
C5_DeactivateOneSided ==
    Deactivated /\ pre.session # "None" /\ PreTx = "ACTIVE" /\ PreRx = "INACTIVE"
      => /\ Len(Edits) = 1
         /\ NamesBoth(Edits[1].body)
         /\ result.kind = "response"
              => StateOf(tx, call.tx_name) = "INACTIVE" /\ StateOf(rx, call.rx_name) = "INACTIVE"

\* A deactivation of an ACTIVE TX carrier and an INACTIVE RX carrier has
\* succeeded.
C5_Witness ==
    /\ Deactivated
    /\ PreTx = "ACTIVE"
    /\ PreRx = "INACTIVE"
    /\ result.kind = "response"
    /\ StateOf(tx, call.tx_name) = "INACTIVE"

\* C6: an activate_carriers call made with a session when both carriers are
\* ACTIVE on the element, or a deactivate_carriers call when both are INACTIVE,
\* sends no edit-config (its only request is the status read) and leaves the
\* carriers as they were.
C6_AlreadyAtTarget ==
    (Activated \/ Deactivated) /\ pre.session # "None" /\ PreTx = Target /\ PreRx = Target
      => /\ Edits = <<>>
         /\ Len(sent) = 1
         /\ tx = pre.tx /\ rx = pre.rx

\* C7: a retrieve_carrier_status call on a connected client makes exactly one
\* request, each component it returns is ACTIVE or INACTIVE when the read
\* succeeded, and for two carriers present on the element the pair is then the
\* TX carrier's state and the RX carrier's state.
C7_StatusIsPerCarrier ==
    call.op = "retrieve_carrier_status" /\ pre.session = "Connected"
      => /\ Len(sent) = 1
         /\ result.status # <<"None", "None">>
              => /\ result.status[1] \in {"ACTIVE", "INACTIVE"}
                 /\ result.status[2] \in {"ACTIVE", "INACTIVE"}
                 /\ PreTx # "absent" /\ PreRx # "absent" => result.status = <<PreTx, PreRx>>

\* The operations that need a session.
SessionBound ==
    {"check_supervision_status", "subscribe_to_netconf_notifications",
     "reset_supervision_watchdog", "get_available_streams", "receive_notifications",
     "configure_call_home", "retrieve_tx_array_carrier_info",
     "retrieve_rx_array_carrier_info", "configure_tx_array_carrier",
     "configure_rx_array_carrier", "delete_tx_array_carrier", "delete_rx_array_carrier",
     "get_running_config", "retrieve_carrier_status", "activate_carriers",
     "deactivate_carriers", "retrieve_ru_states", "get_all_state_data"}

\* C8: a session-bound operation called while the session field is None (no
\* connect has succeeded) raises NotConnectedError and sends no request.
C8_NotConnectedError ==
    call.op \in SessionBound /\ pre.session = "None"
      => result = Raised("NotConnectedError") /\ sent = <<>>

\* C9: a close_connection call made after the session was closed is a no-op:
\* it sends no request, reports no error and leaves the client as it was.
C9_CloseIsIdempotent ==
    call.op = "close_connection" /\ pre.session = "Closed"
      => sent = <<>> /\ result = RetNone /\ session = "Closed"

\* C10: a session-bound operation called while the session is not connected,
\* be it before any connect or after a close, sends no request.
C10_NoRequestUnlessConnected ==
    call.op \in SessionBound /\ pre.session \in {"None", "Closed"}
      => SessionRequests = <<>>

Connected == call.op = "connect"

\* C11: a connect call whose transport failed to open leaves the session field
\* None and gives its caller a ConnectionError; and the session field is not
\* None after a connect call only when that call's open succeeded.
C11_ConnectFailureSurfaced ==
    /\ Connected /\ replies[1].fate = "lost"
         => session = "None" /\ result = Raised("ConnectionError")
    /\ Connected /\ session # "None" => replies[1].fate = "ok"

CheckedStatus == call.op = "check_supervision_status"

\* C12: a check_supervision_status call whose read was answered returns
\* supervised exactly when the answer's supervision-status is the literal
\* supervised, and unsupervised for every other answer, the one without any
\* supervision-status included.
C12_SupervisedOnlyWhenSaid ==
    CheckedStatus /\ Len(replies) = 1 /\ replies[1].fate = "ok"
      => /\ result.kind = "text"
         /\ result.text = "supervised" <=> replies[1].text = "supervised"
         /\ result.text # "supervised" => result.text = "unsupervised"

\* A status read was answered without any supervision-status and the call
\* returned unsupervised.
C12_Witness ==
    /\ CheckedStatus
    /\ replies = <<Rep("ok", "")>>
    /\ result = RetText("unsupervised")

Subscribed == call.op = "subscribe_to_netconf_notifications"

\* C13: a subscribe_to_netconf_notifications call on a connected session that
\* already holds a subscription sends no create-subscription request, and
\* either raises AlreadySubscribedError or returns as the first call did.
C13_SubscribeOncePerSession ==
    Subscribed /\ pre.session = "Connected" /\ pre.subscribed
      => /\ sent = <<>>
         /\ result \in {Raised("AlreadySubscribedError"), RetResponse}

Reset == call.op = "reset_supervision_watchdog"

\* C15: a reset_supervision_watchdog call whose request was lost on the
\* transport either made further attempts, the last of which was answered,
\* or raises SupervisionLostError to its caller.
C15_BoundedRetryThenLost ==
    Reset /\ sent # <<>> /\ replies[1].fate = "lost"
      => \/ result = Raised("SupervisionLostError")
         \/ Len(sent) > 1 /\ replies[Len(replies)].fate = "ok"

DeletedTx == call.op = "delete_tx_array_carrier"
DeletedRx == call.op = "delete_rx_array_carrier"

\* C17: a delete call on a connected client for a carrier name that is absent
\* on the element sends no edit-config and leaves the element as it was; a
\* delete call that was answered sent exactly one edit-config and left the name
\* absent, so that the same call made again sends none.
C17_DeleteAbsentIsNoop ==
    /\ DeletedTx /\ pre.session = "Connected" /\ StateOf(pre.tx, call.tx_name) = "absent"
         => Edits = <<>> /\ tx = pre.tx /\ rx = pre.rx
    /\ DeletedRx /\ pre.session = "Connected" /\ StateOf(pre.rx, call.rx_name) = "absent"
         => Edits = <<>> /\ tx = pre.tx /\ rx = pre.rx
    /\ DeletedTx /\ result.kind = "response"
         => Len(Edits) = 1 /\ StateOf(tx, call.tx_name) = "absent"
    /\ DeletedRx /\ result.kind = "response"
         => Len(Edits) = 1 /\ StateOf(rx, call.rx_name) = "absent"

GotTx == call.op = "retrieve_tx_array_carrier_info"
GotRx == call.op = "retrieve_rx_array_carrier_info"

\* C18: every retrieve_tx_array_carrier_info or retrieve_rx_array_carrier_info
\* call on a connected client sends exactly one get for its list, and when
\* that get was answered the call returns the list as the element holds it at
\* the time of the call, whatever configure, delete or other sessions' edits
\* came before.
C18_GetCarriersIsFresh ==
    /\ GotTx /\ pre.session = "Connected"
         => /\ Len(sent) = 1 /\ sent[1].rpc = "get" /\ sent[1].what = TxList
            /\ replies[1].fate = "ok" => result = RetXml(pre.tx) /\ tx = pre.tx
    /\ GotRx /\ pre.session = "Connected"
         => /\ Len(sent) = 1 /\ sent[1].rpc = "get" /\ sent[1].what = RxList
            /\ replies[1].fate = "ok" => result = RetXml(pre.rx) /\ rx = pre.rx

\* A read has returned two TX carriers, one of them ACTIVE.
C18_Witness ==
    /\ GotTx
    /\ result = RetXml(tx)
    /\ Cardinality(tx) = 2
    /\ \E e \in tx : e.active = "ACTIVE"

\* The last call made requests on the session and every one was answered.
Answered ==
    /\ call.op \in SessionBound
    /\ sent # <<>>
    /\ \A i \in 1..Len(replies) : replies[i].fate = "ok"

\* The operations that return the response of their one request.
ResponseOps ==
    {"subscribe_to_netconf_notifications", "reset_supervision_watchdog",
     "configure_call_home", "delete_tx_array_carrier", "delete_rx_array_carrier"}

\* The operations that read first and may then send an edit-config.
ReadThenEdit ==
    {"configure_tx_array_carrier", "configure_rx_array_carrier", "activate_carriers",
     "deactivate_carriers"}

\* C19: the outcome of a call whose requests were all answered does not
\* depend on the writes to the response file: whatever was saved, the call
\* returns the value of its answers (the response of its request, the list it
\* read, the status it read) and the element holds the effect of its
\* edit-config.
C19_LogFailureKeepsOutcome ==
    Answered
      => /\ call.op \in ResponseOps \/ (call.op \in ReadThenEdit /\ Edits # <<>>)
              => result = RetResponse
         /\ GotTx => result = RetXml(pre.tx)
         /\ GotRx => result = RetXml(pre.rx)
         /\ CheckedStatus => result = RetText(supervision_status(replies[1].text))
         /\ call.op = "retrieve_carrier_status" => result.status # <<"None", "None">>
         /\ ConfiguredTx /\ Edits # <<>> => StateOf(tx, call.tx_name) # "absent"
         /\ ConfiguredRx /\ Edits # <<>> => StateOf(rx, call.rx_name) # "absent"
         /\ DeletedTx => StateOf(tx, call.tx_name) = "absent"
         /\ DeletedRx => StateOf(rx, call.rx_name) = "absent"
         /\ (Activated \/ Deactivated) /\ Edits # <<>>
              => StateOf(tx, call.tx_name) = Target /\ StateOf(rx, call.rx_name) = Target

\* A configure call has created its carrier and returned the response while
\* both of its writes to the response file failed.
C19_Witness ==
    /\ ConfiguredTx
    /\ Answered
    /\ Len(sent) = 2
    /\ saved = <<>>
    /\ result = RetResponse
    /\ StateOf(pre.tx, call.tx_name) = "absent"
    /\ StateOf(tx, call.tx_name) # "absent"

\* The element refused a payload of the last call.
Rejected == \E i \in 1..Len(replies) : replies[i].fate = "rpc-error"

\* C20: a configure, delete, activate or deactivate call one of whose payloads
\* the element refused gives its caller an outcome other than that of a
\* successful call (the response) and that of an already-satisfied call (None).
C20_RejectionIsReported ==
    call.op \in ReadThenEdit \cup {"delete_tx_array_carrier", "delete_rx_array_carrier"}
      /\ Rejected
      => result \notin {RetResponse, RetNone}

\* C14: while the session is connected and subscribed, the time since the
\* subscription or the last watchdog-reset request never exceeds the
\* notification interval less the guard-timer overhead (55000 ms).
C14_WatchdogDeadline ==
    session = "Connected" /\ subscribed => since <= ResetPeriod

Received == call.op = "receive_notifications"

\* C21: a receive_notifications call waits at most the timeout of its
\* take_notification (10 s) and then returns to its caller without raising,
\* whether a notification arrived or not and whatever the session's state.
C21_ReceiveIsBounded ==
    Received => waited <= take_timeout /\ result = RetNone

\* A call on a connected, subscribed session has waited the whole timeout
\* and returned.
C21_Witness ==
    /\ Received
    /\ pre.session = "Connected"
    /\ pre.subscribed
    /\ session = "Connected"
    /\ waited = take_timeout
    /\ result = RetNone

\* C22: a receive_notifications call during which the transport of a
\* connected session dropped raises SessionLostError to its caller and opens
\* no transport.
C22_SessionLostSurfaced ==
    Received /\ pre.session = "Connected" /\ session = "Lost"
      => /\ result = Raised("SessionLostError")
         /\ \A i \in 1..Len(sent) : sent[i].rpc # "open"

\* C23: a connect call makes exactly one transport open; every other call
\* hands at most two requests to the transport, and when it hands two the
\* first is a read and the second an edit-config, so that no request is made a
\* second time whether it succeeded or failed.
C23_NoRetries ==
    /\ Connected => Len(sent) = 1 /\ sent[1].rpc = "open"
    /\ ~Connected
         => /\ Len(sent) <= 2
            /\ \A i \in 1..Len(sent) : sent[i].rpc # "open"
            /\ Len(sent) = 2 => sent[1].rpc = "get" /\ sent[2].rpc = "edit-config"

\* An activation has returned after its status read and its edit-config were
\* both lost.
C23_Witness ==
    /\ Activated
    /\ Len(sent) = 2
    /\ replies = <<Rep("lost", ""), Rep("lost", "")>>
    /\ result = RetNone

\* C24: an activate_carriers or deactivate_carriers call whose status read
\* was not answered sends no edit-config.
C24_EditOnlyAfterStatus ==
    (Activated \/ Deactivated) /\ replies # <<>> /\ replies[1].fate # "ok"
      => Edits = <<>>

\* C25: on a connected client, a call one of whose requests was lost on the
\* transport raises nothing to its caller; and a configure call whose presence
\* read was lost sends no edit-config.
C25_NoExceptionEscapes ==
    /\ pre.session = "Connected" /\ (\E i \in 1..Len(replies) : replies[i].fate = "lost")
         => result.kind # "raise"
    /\ (ConfiguredTx \/ ConfiguredRx) /\ replies # <<>> /\ replies[1].fate = "lost"
         => Edits = <<>>

\* C26: no transport session that the client opened stays open without the
\* client holding a reference to it.
C26_AtMostOneOpenSession == ~leaked

\* C27: while the edit-config of a configure_tx_array_carrier call is on its
\* way to the element, the element holds no TX carrier of the call's name, so
\* that the edit-config finds the name absent when it arrives, also when
\* another session edits the element after the call's presence read.
C27_CreateFindsNameAbsent ==
    /\ call.op = "configure_tx_array_carrier"
    /\ inflight # <<>>
    /\ Head(inflight).rpc = "edit-config"
    => ~Present(TxList, call.tx_name)

====
